---- MODULE Spec2Model ----
(***************************************************************************)
(* Model of the GitHub webhook receiver (app/webhook/routes.py,            *)
(* app/__init__.py, app/extensions.py, config.py).                         *)
(*                                                                         *)
(* Python and JSON values are tagged records [t |-> tag, v |-> value]:     *)
(*   null / None  [t |-> "null"]                                           *)
(*   bool         [t |-> "bool", v |-> TRUE]                               *)
(*   number       [t |-> "num",  v |-> <<"4","2">>]   (decimal digits)     *)
(*   str          [t |-> "str",  v |-> <<"a","b">>]   (characters)         *)
(*   dict         [t |-> "obj",  v |-> [key |-> value, ...]]               *)
(*   list         [t |-> "arr",  v |-> <<value, ...>>]                     *)
(* A str is the sequence of its characters, so that str.replace and the    *)
(* "sha256=" prefix are computed character by character.                   *)
(***************************************************************************)
EXTENDS Integers, Sequences, FiniteSets, TLC

VARIABLES
    webhook_secret,  \* app.config['WEBHOOK_SECRET'], fixed at start-up
    storeUp,         \* whether mongo.db.events accepts operations
    events,          \* the 'events' collection, in insertion order
    nextId,          \* source of store-assigned ObjectIds
    clock,           \* datetime.utcnow()
    pc,              \* per worker: "idle", or "insert" (about to call insert_one)
    request,         \* per worker: the delivery being handled
    event_data,      \* per worker: the event_data dict built by receiver
    last,            \* the last response sent, with the request it answers
    vcall,           \* the last direct call of verify_webhook_signature
    overlapped       \* whether two requests were ever between building their
                     \* event and inserting it at the same time

vars == <<webhook_secret, storeUp, events, nextId, clock, pc, request,
          event_data, last, vcall, overlapped>>

----------------------------------------------------------------------------
(* Bounds *)

NumWorkers == 2
MaxStore == 2
MaxClock == 1

Workers == 1..NumWorkers

----------------------------------------------------------------------------
(* Python / JSON values *)

Null == [t |-> "null"]
Bool(b) == [t |-> "bool", v |-> b]
Num(d) == [t |-> "num", v |-> d]
Str(s) == [t |-> "str", v |-> s]
Obj(f) == [t |-> "obj", v |-> f]
Arr(s) == [t |-> "arr", v |-> s]

\* Marks a key left out of a dict under construction; never a value.
Absent == [t |-> "absent"]

\* The dict holding the keys of f whose value is not Absent.
MkObj(f) == Obj([k \in {j \in DOMAIN f : f[j] # Absent} |-> f[k]])

\* Python truthiness (bool(x)).
Truthy(x) ==
    CASE x.t = "null" -> FALSE
      [] x.t = "bool" -> x.v
      [] x.t = "num"  -> x.v # <<"0">>
      [] x.t = "str"  -> x.v # <<>>
      [] x.t = "obj"  -> DOMAIN x.v # {}
      [] x.t = "arr"  -> x.v # <<>>

\* Only a dict has a .get method; on anything else x.get raises AttributeError.
HasGet(x) == x.t = "obj"

\* dict.get(key, default), for a dict d.
Get(d, key, default) == IF key \in DOMAIN d.v THEN d.v[key] ELSE default

\* Only a str has a .replace method.
HasReplace(x) == x.t = "str"

\* Python str(x).  The repr of a dict or list is kept as one opaque symbol.
PyStr(x) ==
    CASE x.t = "str"  -> x
      [] x.t = "num"  -> Str(x.v)
      [] x.t = "null" -> Str(<<"N","o","n","e">>)
      [] x.t = "bool" -> IF x.v THEN Str(<<"T","r","u","e">>)
                                ELSE Str(<<"F","a","l","s","e">>)
      [] OTHER        -> Str(<<ToString(x)>>)

\* TRUE iff old occurs in s at position i (1-based).
OccursAt(s, old, i) ==
    /\ i + Len(old) - 1 <= Len(s)
    /\ \A j \in 1..Len(old) : s[i + j - 1] = old[j]

RECURSIVE ReplaceFrom(_, _, _, _)
\* s[i..] with every non-overlapping occurrence of old (scanning left to
\* right) replaced by new: str.replace(old, new) for a non-empty old.
ReplaceFrom(s, old, new, i) ==
    IF i > Len(s) THEN <<>>
    ELSE IF OccursAt(s, old, i)
         THEN new \o ReplaceFrom(s, old, new, i + Len(old))
         ELSE <<s[i]>> \o ReplaceFrom(s, old, new, i + 1)

\* s.replace(old, new)
Replace(s, old, new) == ReplaceFrom(s, old, new, 1)

----------------------------------------------------------------------------
(* String literals of the source *)

Placeholder == <<"y","o","u","r","-","w","e","b","h","o","o","k","-",
                 "s","e","c","r","e","t","-","h","e","r","e">>
Sha256Prefix == <<"s","h","a","2","5","6","=">>
RefsHeads == <<"r","e","f","s","/","h","e","a","d","s","/">>
S_unknown == <<"u","n","k","n","o","w","n">>
S_Unknown == <<"U","n","k","n","o","w","n">>
S_push == <<"p","u","s","h">>
S_pull_request == <<"p","u","l","l","_","r","e","q","u","e","s","t">>
S_opened == <<"o","p","e","n","e","d">>
S_reopened == <<"r","e","o","p","e","n","e","d">>
S_closed == <<"c","l","o","s","e","d">>

----------------------------------------------------------------------------
(* Signature Verifier *)

\* A character outside ASCII, as a latin-1 decoded header may contain.
NonAsciiChars == {"U+00E9"}

IsAscii(s) == \A i \in DOMAIN s : s[i] \notin NonAsciiChars

\* hmac.new(key, msg, sha256).hexdigest(): the 64 hex characters are kept as
\* one symbol naming (key, msg); distinct (key, msg) give distinct digests.
HexDigest(key, msg) == <<ToString(<<key, msg>>)>>

\* hmac.compare_digest(a, b) on two str: raises TypeError unless both are
\* ASCII, otherwise tells whether they are equal.
compare_digest(a, b) ==
    IF IsAscii(a) /\ IsAscii(b)
    THEN [exc |-> "none", value |-> (a = b)]
    ELSE [exc |-> "TypeError", value |-> FALSE]

\* Mutant: the hex digest without the "sha256=" prefix.
expected_signature_noprefix(payload_body, secret) ==
    HexDigest(secret.v, payload_body)

\* "sha256=" + hash_object.hexdigest()
expected_signature(payload_body, secret) ==
    Sha256Prefix \o HexDigest(secret.v, payload_body)

\* Mutant: a missing signature header is accepted.
verify_accepts_missing(payload_body, signature_header, secret) ==
    IF ~Truthy(secret) \/ secret = Str(Placeholder)
    THEN [exc |-> "none", value |-> TRUE]
    ELSE IF ~Truthy(signature_header)
    THEN [exc |-> "none", value |-> TRUE]
    ELSE compare_digest(expected_signature(payload_body, secret),
                        signature_header.v)

\* Mutant: the placeholder secret is verified against like a real one.
verify_no_placeholder(payload_body, signature_header, secret) ==
    IF ~Truthy(secret)
    THEN [exc |-> "none", value |-> TRUE]
    ELSE IF ~Truthy(signature_header)
    THEN [exc |-> "none", value |-> FALSE]
    ELSE compare_digest(expected_signature(payload_body, secret),
                        signature_header.v)

verify_webhook_signature(payload_body, signature_header, secret) ==
    IF ~Truthy(secret) \/ secret = Str(Placeholder)
    THEN [exc |-> "none", value |-> TRUE]
    ELSE IF ~Truthy(signature_header)
    THEN [exc |-> "none", value |-> FALSE]
    ELSE compare_digest(expected_signature(payload_body, secret),
                        signature_header.v)

----------------------------------------------------------------------------
(* Event Normalizer: the event_type dispatch inside receiver *)

S_PUSH == <<"P","U","S","H">>
S_PULL_REQUEST == <<"P","U","L","L","_","R","E","Q","U","E","S","T">>
S_MERGE == <<"M","E","R","G","E">>

EmptyObj == Obj(<<>>)

Digits == <<"0","1","2","3","4","5","6","7","8","9">>

\* datetime.utcnow().isoformat() of the instant now, counted in half seconds:
\* the seconds on two digits, and the fraction, which isoformat leaves out
\* when it is zero.
IsoFormat(now) ==
    LET s == now \div 2
    IN Str(<<Digits[((s \div 10) % 10) + 1], Digits[(s % 10) + 1]>>
           \o (IF now % 2 = 0 THEN <<>> ELSE <<".", "5">>))

\* The push branch raises AttributeError when payload.get('pusher', {}) has
\* no .get or payload.get('ref', '') has no .replace.
push_raises(payload) ==
    \/ ~HasGet(Get(payload, "pusher", EmptyObj))
    \/ ~HasReplace(Get(payload, "ref", Str(<<>>)))

\* Mutant: the author is read from pusher.login.
push_event_data_login(payload, now) ==
    [request_id  |-> Get(payload, "after", Str(S_unknown)),
     author      |-> Get(Get(payload, "pusher", EmptyObj), "login", Str(S_Unknown)),
     action      |-> Str(S_PUSH),
     from_branch |-> Null,
     to_branch   |-> Str(Replace(Get(payload, "ref", Str(<<>>)).v, RefsHeads, <<>>)),
     timestamp   |-> IsoFormat(now)]

\* event_data of the push branch
push_event_data(payload, now) ==
    [request_id  |-> Get(payload, "after", Str(S_unknown)),
     author      |-> Get(Get(payload, "pusher", EmptyObj), "name", Str(S_Unknown)),
     action      |-> Str(S_PUSH),
     from_branch |-> Null,
     to_branch   |-> Str(Replace(Get(payload, "ref", Str(<<>>)).v, RefsHeads, <<>>)),
     timestamp   |-> IsoFormat(now)]

\* pr.get('head', {}).get(...) and pr.get('base', {}).get(...) raise when the
\* intermediate value has no .get.
branches_raise(pr) ==
    \/ ~HasGet(Get(pr, "head", EmptyObj))
    \/ ~HasGet(Get(pr, "base", EmptyObj))

\* event_data of the opened / reopened branch
pull_request_event_data(pr, now) ==
    [request_id  |-> PyStr(Get(pr, "id", Str(S_unknown))),
     author      |-> Get(Get(pr, "user", EmptyObj), "login", Str(S_Unknown)),
     action      |-> Str(S_PULL_REQUEST),
     from_branch |-> Get(Get(pr, "head", EmptyObj), "ref", Str(S_unknown)),
     to_branch   |-> Get(Get(pr, "base", EmptyObj), "ref", Str(S_unknown)),
     timestamp   |-> IsoFormat(now)]

\* event_data of the closed-and-merged branch
merge_event_data(pr, now) ==
    [request_id  |-> Get(pr, "merge_commit_sha", Str(S_unknown)),
     author      |-> Get(Get(pr, "merged_by", EmptyObj), "login", Str(S_Unknown)),
     action      |-> Str(S_MERGE),
     from_branch |-> Get(Get(pr, "head", EmptyObj), "ref", Str(S_unknown)),
     to_branch   |-> Get(Get(pr, "base", EmptyObj), "ref", Str(S_unknown)),
     timestamp   |-> IsoFormat(now)]

\* The merge test of the elif: action == 'closed' and pr.get('merged')
is_merge(action, pr) == action = Str(S_closed) /\ Truthy(Get(pr, "merged", Null))

\* Lines 149-230 for a parsed payload: the event_data built, None, or the
\* AttributeError raised on the way.
Raised(line) == [kind |-> "raise", line |-> line]
Built(ev) == [kind |-> "event", ev |-> ev]
NoEvent == [kind |-> "none"]

pull_request_branch(payload, now) ==
    IF ~HasGet(payload) THEN Raised(204)
    ELSE LET action == Get(payload, "action", Null)
             pr == Get(payload, "pull_request", EmptyObj)
         IN IF action = Str(S_opened) \/ action = Str(S_reopened)
            THEN IF ~HasGet(pr) \/ ~HasGet(Get(pr, "user", EmptyObj))
                    \/ branches_raise(pr)
                 THEN Raised(210)
                 ELSE Built(pull_request_event_data(pr, now))
            ELSE IF action # Str(S_closed) THEN NoEvent
            ELSE IF ~HasGet(pr) THEN Raised(220)
            ELSE IF ~is_merge(action, pr) THEN NoEvent
            ELSE IF ~HasGet(Get(pr, "merged_by", EmptyObj)) \/ branches_raise(pr)
                 THEN Raised(222)
                 ELSE Built(merge_event_data(pr, now))

normalize(event_type, payload, now) ==
    IF event_type = Str(S_push)
    THEN IF ~HasGet(payload) \/ push_raises(payload)
         THEN Raised(171)
         ELSE Built(push_event_data(payload, now))
    ELSE IF event_type = Str(S_pull_request)
    THEN pull_request_branch(payload, now)
    ELSE NoEvent

----------------------------------------------------------------------------
(* Webhook Endpoint, up to the store call *)

\* json.loads of the raw body
JsonLoads(data) ==
    IF data.kind = "json" THEN [exc |-> FALSE, payload |-> data.doc]
                          ELSE [exc |-> TRUE, payload |-> Null]

\* request.json: the outcomes the framework can produce.  With a JSON content
\* type it parses the body and raises BadRequest on a parse failure; without
\* one it returns None or raises UnsupportedMediaType, depending on the
\* installed Flask.
request_json(req) ==
    IF req.is_json THEN {JsonLoads(req.data)}
    ELSE {[exc |-> FALSE, payload |-> Null], [exc |-> TRUE, payload |-> Null]}

Json(code, line, body) == [kind |-> "respond", code |-> code, line |-> line, body |-> body]
\* An exception no handler catches: the framework answers 500.
Unhandled(line, exc) ==
    [kind |-> "respond", code |-> 500, line |-> line, body |-> [unhandled |-> exc]]
ToInsert(ev) == [kind |-> "insert", ev |-> ev]

\* if webhook_secret and webhook_secret != 'your-webhook-secret-here'
real_secret(secret) == Truthy(secret) /\ secret # Str(Placeholder)

\* Mutant: only a None payload is refused ("if payload is None").
after_verify_none_only(req, parsed, now) ==
    IF parsed.exc THEN Json(400, 144, [error |-> "Invalid JSON"])
    ELSE IF parsed.payload = Null THEN Json(400, 141, [error |-> "No payload"])
    ELSE LET n == normalize(req.event_type, parsed.payload, now)
         IN CASE n.kind = "raise" -> Unhandled(n.line, "AttributeError")
              [] n.kind = "event" -> ToInsert(n.ev)
              [] n.kind = "none"  ->
                   IF HasGet(parsed.payload)
                   THEN Json(200, 259, [status |-> "ignored",
                                        reason |-> "Event type not handled"])
                   ELSE Unhandled(255, "AttributeError")

\* Lines 136-259 short of the insert, for one outcome of request.json.
after_verify(req, parsed, now) ==
    IF parsed.exc THEN Json(400, 144, [error |-> "Invalid JSON"])
    ELSE IF ~Truthy(parsed.payload) THEN Json(400, 141, [error |-> "No payload"])
    ELSE LET n == normalize(req.event_type, parsed.payload, now)
         IN CASE n.kind = "raise" -> Unhandled(n.line, "AttributeError")
              [] n.kind = "event" -> ToInsert(n.ev)
              [] n.kind = "none"  ->
                   IF HasGet(parsed.payload)
                   THEN Json(200, 259, [status |-> "ignored",
                                        reason |-> "Event type not handled"])
                   ELSE Unhandled(255, "AttributeError")

\* Lines 116-259 short of the insert.
receiver_until_insert(req, secret, parsed, now) ==
    IF real_secret(secret)
    THEN LET ok == verify_webhook_signature(req.data, req.signature, secret)
         IN IF ok.exc # "none" THEN Unhandled(82, ok.exc)
            ELSE IF ~ok.value THEN Json(401, 134, [error |-> "Invalid signature"])
            ELSE after_verify(req, parsed, now)
    ELSE after_verify(req, parsed, now)

----------------------------------------------------------------------------
(* Inputs: configured secrets, payloads, raw bodies, deliveries *)

Key1 == <<"k","1">>
Key2 == <<"k","2">>
\* WEBHOOK_SECRET = os.environ.get('WEBHOOK_SECRET'): unset, empty, the
\* placeholder, or a real secret.
Secrets == {Null, Str(<<>>), Str(Placeholder), Str(Key1), Str(Key2)}

S_sha1 == <<"s","h","a","1">>
S_sha9 == <<"s","h","a","9">>
S_alice == <<"a","l","i","c","e">>
S_bob == <<"b","o","b">>
S_carol == <<"c","a","r","o","l">>
S_main == <<"m","a","i","n">>
S_feat == <<"f","e","a","t">>
S_edited == <<"e","d","i","t","e","d">>
S_issues == <<"i","s","s","u","e","s">>

\* Values of payload.ref: a branch ref, a bare name, a tag ref, a branch whose
\* own name contains or repeats the prefix, the empty string, and non-strings.
RefVals ==
    {Absent, Null,
     Str(RefsHeads \o S_main),
     Str(S_main),
     Str(<<"r","e","f","s","/","t","a","g","s","/","v","1">>),
     Str(RefsHeads \o RefsHeads \o <<"x">>),
     Str(<<"x","/">> \o RefsHeads \o <<"y">>),
     Str(<<>>)}

AfterVals == {Absent, Null, Str(S_sha1)}

PusherVals ==
    {Absent, Null, Str(S_alice), EmptyObj,
     Obj([name |-> Str(S_alice)]), Obj([name |-> Null])}

PushPayloads ==
    {MkObj([after |-> a, pusher |-> p, ref |-> Str(RefsHeads \o S_main)]) :
        a \in AfterVals, p \in PusherVals}
    \cup {MkObj([after |-> Str(S_sha1), pusher |-> p, ref |-> r]) :
        p \in {Absent, Obj([name |-> Str(S_alice)])}, r \in RefVals}

UserVals == {Absent, Null, Obj([login |-> Str(S_bob)]), EmptyObj}
IdVals == {Absent, Null, Num(<<"4","2">>), Str(<<"7">>)}
HeadVals == {Absent, Null, Obj([ref |-> Str(S_feat)]), Obj([ref |-> Null])}
BaseVals == {Absent, Str(S_main), Obj([ref |-> Str(S_main)]), EmptyObj}
MergedVals == {Absent, Null, Bool(TRUE), Bool(FALSE), Num(<<"1">>), Num(<<"0">>),
               Str(<<"n","o">>)}
MergedByVals == {Absent, Null, Obj([login |-> Str(S_carol)])}
ShaVals == {Absent, Null, Str(S_sha9)}

PrObj(id, user, head, base, merged, merged_by, sha) ==
    MkObj([id |-> id, user |-> user, head |-> head, base |-> base,
           merged |-> merged, merged_by |-> merged_by, merge_commit_sha |-> sha])

FullHead == Obj([ref |-> Str(S_feat)])
FullBase == Obj([ref |-> Str(S_main)])

\* Values of payload.pull_request
PullRequestVals ==
    {Absent, Null, Str(S_feat)}
    \cup {PrObj(i, u, FullHead, FullBase, Bool(FALSE), Absent, Absent) :
            i \in IdVals, u \in UserVals}
    \cup {PrObj(Num(<<"4","2">>), Obj([login |-> Str(S_bob)]), h, b,
                Bool(TRUE), Obj([login |-> Str(S_carol)]), Str(S_sha9)) :
            h \in HeadVals, b \in BaseVals}
    \cup {PrObj(Num(<<"4","2">>), Obj([login |-> Str(S_bob)]), FullHead, FullBase,
                m, Obj([login |-> Str(S_carol)]), Str(S_sha9)) :
            m \in MergedVals}
    \cup {PrObj(Num(<<"4","2">>), Obj([login |-> Str(S_bob)]), FullHead, FullBase,
                Bool(TRUE), mb, sha) :
            mb \in MergedByVals, sha \in ShaVals}

ActionVals == {Absent, Null, Str(S_opened), Str(S_reopened), Str(S_closed),
               Str(S_edited)}

PullRequestPayloads ==
    {MkObj([action |-> a, pull_request |-> pr]) :
        a \in ActionVals, pr \in PullRequestVals}

\* JSON documents that are not a non-empty object.
OtherPayloads ==
    {Null, Bool(FALSE), Bool(TRUE), Num(<<"0">>), Num(<<"5">>), Str(<<>>),
     Str(S_main), Arr(<<>>), Arr(<<Num(<<"1">>)>>), EmptyObj}

Payloads == PushPayloads \cup PullRequestPayloads \cup OtherPayloads

JsonBody(doc) == [kind |-> "json", doc |-> doc]
\* Bodies json.loads rejects: the empty body and a truncated document.
BadBodies == {[kind |-> "text", doc |-> Str(<<>>)],
              [kind |-> "text", doc |-> Str(<<"{">>)]}

Bodies == {JsonBody(d) : d \in Payloads} \cup BadBodies

\* request.headers.get('X-GitHub-Event')
EventTypes == {Null, Str(S_push), Str(S_pull_request), Str(S_issues)}

\* The header GitHub sends for a body signed with key.
Signed(data, key) == Str(Sha256Prefix \o HexDigest(key, data))

\* request.headers.get('X-Hub-Signature-256') for a body: absent, empty, the
\* signature under each key, the digest without its prefix, the signature
\* of another body, and a value with a non-ASCII character.
Signatures(data) ==
    {Null, Str(<<>>),
     Signed(data, Key1), Signed(data, Key2), Signed(data, <<>>),
     Signed(data, Placeholder),
     Str(HexDigest(Key1, data)),
     Signed([kind |-> "text", doc |-> Str(<<"x">>)], Key1),
     Str(Sha256Prefix \o <<"U+00E9">>)}

Delivery(et, sig, data, is_json) ==
    [event_type |-> et, signature |-> sig, data |-> data, is_json |-> is_json]

PushMain == MkObj([after |-> Str(S_sha1), pusher |-> Obj([name |-> Str(S_alice)]),
                   ref |-> Str(RefsHeads \o S_main)])
PrFull == PrObj(Num(<<"4","2">>), Obj([login |-> Str(S_bob)]), FullHead, FullBase,
                Bool(TRUE), Obj([login |-> Str(S_carol)]), Str(S_sha9))

PrMerged == MkObj([action |-> Str(S_closed), pull_request |-> PrFull])

\* Bodies sent with every signature and content type.
ProbeBodies == {JsonBody(PushMain), JsonBody(EmptyObj)} \cup BadBodies

\* The deliveries of the single-delivery analysis: every body under every
\* event type, unsigned or signed with Key1; the probe bodies under every
\* signature and content type.
AllDeliveries ==
    UNION {{Delivery(et, sig, d, TRUE) :
               et \in EventTypes,
               sig \in {Null, Signed(d, Key1)}} :
           d \in Bodies}
    \cup UNION {{Delivery(et, sig, d, j) :
                    et \in EventTypes, sig \in Signatures(d), j \in BOOLEAN} :
                d \in ProbeBodies}

\* The deliveries of the concurrent system.
Deliveries ==
    {Delivery(Str(S_push), Signed(JsonBody(PushMain), Key1),
              JsonBody(PushMain), TRUE),
     Delivery(Str(S_push), Null, JsonBody(PushMain), TRUE),
     Delivery(Str(S_pull_request), Signed(JsonBody(PrMerged), Key1),
              JsonBody(PrMerged), TRUE),
     Delivery(Str(S_issues), Null, JsonBody(PushMain), TRUE),
     Delivery(Str(S_push), Null, JsonBody(EmptyObj), TRUE)}

----------------------------------------------------------------------------
(* Event Store *)

\* The ObjectId the store assigns to the n-th insert.
Oid(n) == [t |-> "oid", v |-> n]

\* The stored document: insert_one adds '_id' to event_data.
Doc(ev, id) == [k \in DOMAIN ev \cup {"_id"} |-> IF k = "_id" THEN id ELSE ev[k]]

\* The query limit of get_events.
QueryLimit == 10

Min(a, b) == IF a < b THEN a ELSE b

\* The characters of a timestamp in the order of their codes.
CharOrder == <<".">> \o Digits

CharCode(c) == CHOOSE i \in DOMAIN CharOrder : CharOrder[i] = c

\* The store's order of strings: by character code at the first difference,
\* a proper prefix before the longer string.
StrLeq(a, b) ==
    \/ /\ Len(a) <= Len(b)
       /\ \A k \in DOMAIN a : a[k] = b[k]
    \/ \E k \in DOMAIN a \cap DOMAIN b :
         /\ \A j \in 1..(k - 1) : a[j] = b[j]
         /\ CharCode(a[k]) < CharCode(b[k])

\* sort('timestamp', -1).limit(n) over the documents at the indexes idx: the
\* sequences the store can return.  The order among equal timestamps is the
\* store's choice.
RECURSIVE SortLimit(_, _, _)
SortLimit(evs, idx, n) ==
    IF n = 0 \/ idx = {}
    THEN {<<>>}
    ELSE LET top == {i \in idx :
                       \A j \in idx : StrLeq(evs[j].timestamp.v, evs[i].timestamp.v)}
         IN UNION {{<<evs[i]>> \o rest : rest \in SortLimit(evs, idx \ {i}, n - 1)} :
                   i \in top}

\* A query that sorts oldest first.
Recent_oldest_first(evs, n) ==
    {[i \in 1..Min(n, Len(evs)) |-> s[Len(evs) + 1 - i]] :
       s \in SortLimit(evs, DOMAIN evs, Len(evs))}

\* A query that returns the first n documents in insertion order.
Recent_unsorted(evs, n) == {SubSeq(evs, 1, Min(n, Len(evs)))}

\* find().sort('timestamp', -1).limit(n)
Recent(evs, n) == SortLimit(evs, DOMAIN evs, n)

----------------------------------------------------------------------------
(* State machine *)

NoCall == [called |-> FALSE]
NoResponse ==
    [seq |-> 0, route |-> "none", request |-> Null,
     code |-> 0, line |-> 0, body |-> <<>>]

\* The response r, sent on a route for request req.
Respond(route, req, r) ==
    [seq |-> 1 - last.seq, route |-> route, request |-> req,
     code |-> r.code, line |-> r.line, body |-> r.body]

Inserting == {w \in Workers : pc[w] = "insert"}

\* The configurations of the running system: bypass mode and a real secret.
ConfiguredSecrets == {Str(Placeholder), Str(Key1)}

Init ==
    /\ webhook_secret \in ConfiguredSecrets
    /\ storeUp = TRUE
    /\ events = <<>>
    /\ nextId = 0
    /\ clock = 0
    /\ pc = [w \in Workers |-> "idle"]
    /\ request = [w \in Workers |-> Null]
    /\ event_data = [w \in Workers |-> Null]
    /\ last = NoResponse
    /\ vcall = NoCall
    /\ overlapped = FALSE

\* POST /webhook/receiver, from the headers to the response, or to the point
\* where insert_one is about to be called.  Workers are interchangeable: the
\* request goes to the first idle one.
ReceiverBegin(w, req) ==
    /\ pc[w] = "idle"
    /\ \A v \in Workers : v < w => pc[v] # "idle"
    /\ \E parsed \in request_json(req) :
         LET r == receiver_until_insert(req, webhook_secret, parsed, clock)
         IN IF r.kind = "insert"
            THEN /\ Len(events) + Cardinality(Inserting) < MaxStore
                 /\ pc' = [pc EXCEPT ![w] = "insert"]
                 /\ request' = [request EXCEPT ![w] = req]
                 /\ event_data' = [event_data EXCEPT ![w] = r.ev]
                 /\ overlapped' = (overlapped \/ Inserting # {})
                 /\ UNCHANGED last
            ELSE /\ last' = Respond("receiver", req, r)
                 /\ UNCHANGED <<pc, request, event_data, overlapped>>
    /\ UNCHANGED <<webhook_secret, storeUp, events, nextId, clock, vcall>>

\* A handler that reads the clock again when it inserts.
ReceiverInsert_restamp(w) ==
    /\ pc[w] = "insert"
    /\ IF storeUp
       THEN /\ events' = Append(events,
                                Doc([event_data[w] EXCEPT
                                       !.timestamp = IsoFormat(clock)],
                                    Oid(nextId)))
            /\ nextId' = nextId + 1
            /\ last' = Respond("receiver", request[w],
                               Json(200, 244, [status |-> "success",
                                               id |-> PyStr(Oid(nextId))]))
       ELSE /\ last' = Respond("receiver", request[w],
                               Json(500, 252, [error |-> "Database error",
                                               message |-> "store unavailable"]))
            /\ UNCHANGED <<events, nextId>>
    /\ pc' = [pc EXCEPT ![w] = "idle"]
    /\ request' = [request EXCEPT ![w] = Null]
    /\ event_data' = [event_data EXCEPT ![w] = Null]
    /\ UNCHANGED <<webhook_secret, storeUp, clock, vcall, overlapped>>

\* A handler that skips a delivery whose request_id is already stored.
ReceiverInsert_dedup(w) ==
    /\ pc[w] = "insert"
    /\ LET same == {i \in DOMAIN events :
                      events[i].request_id = event_data[w].request_id}
       IN IF same # {}
          THEN /\ last' = Respond("receiver", request[w],
                                  Json(200, 244, [status |-> "ignored",
                                                  reason |-> "duplicate"]))
               /\ UNCHANGED <<events, nextId>>
          ELSE IF storeUp
          THEN /\ events' = Append(events, Doc(event_data[w], Oid(nextId)))
               /\ nextId' = nextId + 1
               /\ last' = Respond("receiver", request[w],
                                  Json(200, 244, [status |-> "success",
                                                  id |-> PyStr(Oid(nextId))]))
          ELSE /\ last' = Respond("receiver", request[w],
                                  Json(500, 252, [error |-> "Database error",
                                                  message |-> "store unavailable"]))
               /\ UNCHANGED <<events, nextId>>
    /\ pc' = [pc EXCEPT ![w] = "idle"]
    /\ request' = [request EXCEPT ![w] = Null]
    /\ event_data' = [event_data EXCEPT ![w] = Null]
    /\ UNCHANGED <<webhook_secret, storeUp, clock, vcall, overlapped>>

\* A handler that replaces the stored event of the same request_id.
ReceiverInsert_upsert(w) ==
    /\ pc[w] = "insert"
    /\ IF storeUp
       THEN LET same == {i \in DOMAIN events :
                           events[i].request_id = event_data[w].request_id}
            IN IF same = {}
               THEN /\ events' = Append(events, Doc(event_data[w], Oid(nextId)))
                    /\ nextId' = nextId + 1
                    /\ last' = Respond("receiver", request[w],
                                       Json(200, 244, [status |-> "success",
                                                       id |-> PyStr(Oid(nextId))]))
               ELSE LET i == CHOOSE i \in same : TRUE
                    IN /\ events' = [events EXCEPT
                                       ![i] = Doc(event_data[w], events[i]["_id"])]
                       /\ nextId' = nextId
                       /\ last' = Respond("receiver", request[w],
                                          Json(200, 244,
                                               [status |-> "success",
                                                id |-> PyStr(events[i]["_id"])]))
       ELSE /\ last' = Respond("receiver", request[w],
                               Json(500, 252, [error |-> "Database error",
                                               message |-> "store unavailable"]))
            /\ UNCHANGED <<events, nextId>>
    /\ pc' = [pc EXCEPT ![w] = "idle"]
    /\ request' = [request EXCEPT ![w] = Null]
    /\ event_data' = [event_data EXCEPT ![w] = Null]
    /\ UNCHANGED <<webhook_secret, storeUp, clock, vcall, overlapped>>

\* A handler that reports success whether or not the store took the record.
ReceiverInsert_swallow(w) ==
    /\ pc[w] = "insert"
    /\ IF storeUp
       THEN /\ events' = Append(events, Doc(event_data[w], Oid(nextId)))
            /\ nextId' = nextId + 1
       ELSE UNCHANGED <<events, nextId>>
    /\ last' = Respond("receiver", request[w],
                       Json(200, 244, [status |-> "success",
                                       id |-> PyStr(Oid(nextId))]))
    /\ pc' = [pc EXCEPT ![w] = "idle"]
    /\ request' = [request EXCEPT ![w] = Null]
    /\ event_data' = [event_data EXCEPT ![w] = Null]
    /\ UNCHANGED <<webhook_secret, storeUp, clock, vcall, overlapped>>

\* mongo.db.events.insert_one(event_data) and the response that follows.
ReceiverInsert(w) ==
    /\ pc[w] = "insert"
    /\ IF storeUp
       THEN /\ events' = Append(events, Doc(event_data[w], Oid(nextId)))
            /\ nextId' = nextId + 1
            /\ last' = Respond("receiver", request[w],
                               Json(200, 244, [status |-> "success",
                                               id |-> PyStr(Oid(nextId))]))
       ELSE /\ last' = Respond("receiver", request[w],
                               Json(500, 252, [error |-> "Database error",
                                               message |-> "store unavailable"]))
            /\ UNCHANGED <<events, nextId>>
    /\ pc' = [pc EXCEPT ![w] = "idle"]
    /\ request' = [request EXCEPT ![w] = Null]
    /\ event_data' = [event_data EXCEPT ![w] = Null]
    /\ UNCHANGED <<webhook_secret, storeUp, clock, vcall, overlapped>>

\* A health check that pings the store first.
test_pings_store ==
    /\ IF storeUp
       THEN last' = Respond("test", Null,
                            Json(200, 282, [status |-> "ok",
                                            message |-> "Webhook endpoint is working",
                                            timestamp |-> IsoFormat(clock)]))
       ELSE last' = Respond("test", Null, Unhandled(282, "PyMongoError"))
    /\ UNCHANGED <<webhook_secret, storeUp, events, nextId, clock, pc, request,
                   event_data, vcall, overlapped>>

\* GET /webhook/test
test ==
    /\ last' = Respond("test", Null,
                       Json(200, 282, [status |-> "ok",
                                       message |-> "Webhook endpoint is working",
                                       timestamp |-> IsoFormat(clock)]))
    /\ UNCHANGED <<webhook_secret, storeUp, events, nextId, clock, pc, request,
                   event_data, vcall, overlapped>>

\* GET /api/events
get_events ==
    /\ IF storeUp
       THEN \E found \in Recent(events, QueryLimit) :
              last' = Respond("events", Null,
                        Json(200, 118,
                             [i \in DOMAIN found |->
                                [found[i] EXCEPT !["_id"] = PyStr(found[i]["_id"])]]))
       ELSE last' = Respond("events", Null, Unhandled(110, "PyMongoError"))
    /\ UNCHANGED <<webhook_secret, storeUp, events, nextId, clock, pc, request,
                   event_data, vcall, overlapped>>

\* Time passes.
Tick ==
    /\ clock < MaxClock
    /\ clock' = clock + 1
    /\ UNCHANGED <<webhook_secret, storeUp, events, nextId, pc, request,
                   event_data, last, vcall, overlapped>>

\* The store becomes unreachable, or reachable again.
StoreFlip ==
    /\ storeUp' = ~storeUp
    /\ UNCHANGED <<webhook_secret, events, nextId, clock, pc, request,
                   event_data, last, vcall, overlapped>>

Next ==
    \/ \E w \in Workers, req \in Deliveries : ReceiverBegin(w, req)
    \/ \E w \in Workers : ReceiverInsert(w)
    \/ test
    \/ get_events
    \/ Tick
    \/ StoreFlip

Spec == Init /\ [][Next]_vars

----------------------------------------------------------------------------
(* Single-operation analysis: one delivery to POST /webhook/receiver, or    *)
(* one direct call of verify_webhook_signature, from a store that is empty  *)
(* or holds one earlier push.                                               *)

SeedDoc == Doc(push_event_data(PushMain, 0), Oid(0))

InitOne ==
    /\ webhook_secret \in Secrets
    /\ storeUp \in BOOLEAN
    /\ \/ events = <<>> /\ nextId = 0
       \/ events = <<SeedDoc>> /\ nextId = 1
    /\ clock = 1
    /\ pc = [w \in Workers |-> "idle"]
    /\ request = [w \in Workers |-> Null]
    /\ event_data = [w \in Workers |-> Null]
    /\ last = NoResponse
    /\ vcall = NoCall
    /\ overlapped = FALSE

Fresh == last = NoResponse /\ Inserting = {} /\ vcall = NoCall

\* verify_webhook_signature called on its own.
VerifyCall(payload_body, signature_header, secret) ==
    /\ vcall' = [called |-> TRUE, payload_body |-> payload_body,
                 signature_header |-> signature_header, secret |-> secret,
                 result |-> verify_webhook_signature(payload_body,
                                                     signature_header, secret)]
    /\ UNCHANGED <<webhook_secret, storeUp, events, nextId, clock, pc, request,
                   event_data, last, overlapped>>

NextOne ==
    \/ Fresh /\ \E req \in AllDeliveries : ReceiverBegin(1, req)
    \/ ReceiverInsert(1)
    \/ Fresh /\ \E b \in ProbeBodies, s \in Secrets :
                  \E h \in Signatures(b) : VerifyCall(b, h, s)

SpecOne == InitOne /\ [][NextOne]_vars

----------------------------------------------------------------------------
(* Query analysis: GET /api/events over stores of every shape, shorter and  *)
(* longer than the query limit, with timestamps in and out of insertion     *)
(* order, equal timestamps included.                                        *)

\* Short stores hold up to MaxShort events with instants up to MaxStamp.
MaxShort == 3
MaxStamp == 2

\* Long stores hold up to MaxOver events more than the query limit.
MaxOver == 2

\* The event stored by the i-th insert, built at instant ts.
StoredAt(ts, i) == Doc(push_event_data(PushMain, ts), Oid(i - 1))

\* The instants of the events of a store, in insertion order.
Ascending(n) == [i \in 1..n |-> i]
Descending(n) == [i \in 1..n |-> n + 1 - i]
Alternating(n) ==
    [i \in 1..n |-> IF i % 2 = 1 THEN (i + 1) \div 2 ELSE n + 1 - (i \div 2)]
TiedAtLimit(n) == [i \in 1..n |-> IF i >= QueryLimit THEN 0 ELSE n + 1 - i]

Stamps ==
    UNION {[1..n -> 0..MaxStamp] : n \in 0..MaxShort}
    \cup UNION {{Ascending(n), Descending(n), Alternating(n), TiedAtLimit(n)} :
                n \in (QueryLimit - 1)..(QueryLimit + MaxOver)}

Latest(st) ==
    IF st = <<>> THEN 0
    ELSE CHOOSE m \in {st[i] : i \in DOMAIN st} : \A i \in DOMAIN st : st[i] <= m

InitQuery ==
    /\ webhook_secret = Str(Key1)
    /\ storeUp = TRUE
    /\ \E st \in Stamps :
         /\ events = [i \in DOMAIN st |-> StoredAt(st[i], i)]
         /\ nextId = Len(st)
         /\ clock = Latest(st)
    /\ pc = [w \in Workers |-> "idle"]
    /\ request = [w \in Workers |-> Null]
    /\ event_data = [w \in Workers |-> Null]
    /\ last = NoResponse
    /\ vcall = NoCall
    /\ overlapped = FALSE

NextQuery ==
    \/ get_events
    \/ StoreFlip

SpecQuery == InitQuery /\ [][NextQuery]_vars

----------------------------------------------------------------------------
(* Properties *)

ReturnedTrue == [exc |-> "none", value |-> TRUE]
ReturnedFalse == [exc |-> "none", value |-> FALSE]

\* The secrets under which verification is bypassed.
BypassSecrets == {Null, Str(<<>>), Str(Placeholder)}

\* The step sends a response of POST /webhook/receiver.
ReceiverAnswers == last' # last /\ last'.route = "receiver"

\* The answered delivery carries the signature of its body under the
\* configured secret.
CorrectlySigned(req) ==
    /\ webhook_secret.t = "str"
    /\ req.signature = Str(Sha256Prefix \o HexDigest(webhook_secret.v, req.data))

\* The delivery gets past the signature gate.
PassesGate(req) == webhook_secret \in BypassSecrets \/ CorrectlySigned(req)

InvalidSignatureBody == [error |-> "Invalid signature"]

\* C1: under a real secret, a delivery whose signature header is absent or
\* differs from the signature of its body is answered 401 "Invalid
\* signature" straight from the signature gate, and the store is unchanged.
C1_InvalidSignatureIs401 ==
    [][(/\ ReceiverAnswers
        /\ webhook_secret \notin BypassSecrets
        /\ ~CorrectlySigned(last'.request))
       => (/\ last'.code = 401
           /\ last'.body = InvalidSignatureBody
           /\ pc' = pc
           /\ events' = events)]_vars

C4_BypassMode ==
    /\ (vcall.called /\ vcall.secret \in BypassSecrets)
       => vcall.result = ReturnedTrue
    /\ (last.route = "receiver" /\ webhook_secret \in BypassSecrets)
       => last.code # 401
    /\ (vcall.called /\ vcall.signature_header = Null)
       => (vcall.result = ReturnedFalse <=> real_secret(vcall.secret))
    /\ \A s \in Secrets : real_secret(s) <=> s \notin BypassSecrets

\* The placeholder secret and a signature that does not match: returned true.
C4_Witness ==
    /\ vcall.called
    /\ vcall.secret = Str(Placeholder)
    /\ vcall.signature_header = Str(Sha256Prefix \o HexDigest(Key1, vcall.payload_body))
    /\ vcall.result = ReturnedTrue

\* JSON documents Python holds to be false.
FalsyDocs == {Null, Bool(FALSE), Num(<<"0">>), Str(<<>>), Arr(<<>>), Obj(<<>>)}

\* The body does not parse as JSON (or is not sent as JSON).
Unparsable(req) == ~req.is_json \/ req.data.kind # "json"

\* The delivery gets past the signature gate and parses to a payload that is
\* not empty.
Parsed(req) ==
    /\ PassesGate(req)
    /\ ~Unparsable(req)
    /\ req.data.doc \notin FalsyDocs

\* The response comes from the insert: success, or "Database error".
FromInsert(r) == r.line \in {244, 252}

Ignored(r) ==
    /\ r.code = 200
    /\ r.body = [status |-> "ignored", reason |-> "Event type not handled"]

\* d[k], or Absent when d is not an object or has no key k.
Field(d, k) == IF d.t = "obj" /\ k \in DOMAIN d.v THEN d.v[k] ELSE Absent

\* C5: a delivery past the signature gate whose body is unparsable or parses
\* to an empty payload is answered 400 "Invalid JSON" / "No payload" without
\* reaching the insert, whatever its event type; the store is unchanged.
C5_BadPayloadIs400 ==
    [][/\ \A w \in Inserting :
             ~Unparsable(request[w]) /\ request[w].data.doc \notin FalsyDocs
       /\ (/\ ReceiverAnswers
           /\ PassesGate(last'.request)
           /\ Unparsable(last'.request) \/ last'.request.data.doc \in FalsyDocs)
          => (/\ last'.code = 400
              /\ last'.body \in {[error |-> "Invalid JSON"], [error |-> "No payload"]}
              /\ last'.request.is_json
                   => last'.body = IF last'.request.data.kind = "json"
                                   THEN [error |-> "No payload"]
                                   ELSE [error |-> "Invalid JSON"]
              /\ pc' = pc
              /\ events' = events)]_vars

\* A push delivery with body {} answered 400, the stored event untouched.
C5_Witness ==
    /\ last.route = "receiver"
    /\ last.request.event_type = Str(S_push)
    /\ last.request.data = JsonBody(EmptyObj)
    /\ last.body = [error |-> "No payload"]
    /\ events = <<SeedDoc>>

\* C6: every delivery past the signature gate with a non-empty JSON payload
\* ends in 200 (success or ignored), or in 500 "Database error".
C6_NormalizationNeverFails ==
    (last.route = "receiver" /\ Parsed(last.request))
    => \/ last.code = 200
       \/ /\ last.code = 500
          /\ "error" \in DOMAIN last.body
          /\ last.body.error = "Database error"

\* The request is a parsed pull_request delivery.
PrDelivery(req) == req.event_type = Str(S_pull_request) /\ Parsed(req)

\* The action the dispatch table gives a pull_request payload (Null: none).
TablePrAction(doc) ==
    LET a == Field(doc, "action")
        m == Field(Field(doc, "pull_request"), "merged")
    IN IF a \in {Str(S_opened), Str(S_reopened)} THEN Str(S_PULL_REQUEST)
       ELSE IF a = Str(S_closed) /\ m = Bool(TRUE) THEN Str(S_MERGE)
       ELSE Null

\* C7: a pull_request delivery becomes a MERGE event exactly when action is
\* "closed" and pull_request.merged is true, a PULL_REQUEST event exactly
\* when action is "opened" or "reopened"; any other one is answered 200
\* "ignored" without an insert.
C7_PullRequestDispatch ==
    /\ \A w \in Inserting :
         PrDelivery(request[w])
         => event_data[w].action = TablePrAction(request[w].data.doc)
    /\ (last.route = "receiver" /\ PrDelivery(last.request))
       => IF TablePrAction(last.request.data.doc) = Null
          THEN Ignored(last)
          ELSE FromInsert(last)

\* The request is a parsed push delivery.
PushDelivery(req) == req.event_type = Str(S_push) /\ Parsed(req)

\* The fields the claim gives the event of a push payload.
IsPushOf(ev, doc) ==
    /\ ev.action = Str(S_PUSH)
    /\ ev.request_id = IF "after" \in DOMAIN doc.v THEN doc.v.after ELSE Str(S_unknown)
    /\ ev.author = IF "pusher" \in DOMAIN doc.v /\ "name" \in DOMAIN doc.v.pusher.v
                   THEN doc.v.pusher.v.name ELSE Str(S_Unknown)
    /\ ev.from_branch = Null

\* The push payload has a pusher that is absent or an object and a ref that
\* is absent or a string.
PushShaped(doc) ==
    /\ doc.t = "obj"
    /\ Field(doc, "pusher").t \in {"absent", "obj"}
    /\ Field(doc, "ref").t \in {"absent", "str"}

\* C8: the event built for a push delivery, and the document stored for it,
\* has action PUSH, request_id payload.after ("unknown" if absent), author
\* payload.pusher.name ("Unknown" if pusher or name is absent) and
\* from_branch null; a push payload of that shape always reaches the insert.
C8_PushFields ==
    /\ \A w \in Inserting :
         PushDelivery(request[w]) => IsPushOf(event_data[w], request[w].data.doc)
    /\ (last.route = "receiver" /\ PushDelivery(last.request))
       => /\ PushShaped(last.request.data.doc) => FromInsert(last)
          /\ last.code = 200
             => /\ last.body.status = "success"
                /\ events # <<>>
                /\ IsPushOf(events[Len(events)], last.request.data.doc)
                /\ last.body.id = PyStr(events[Len(events)]["_id"])
          /\ (last.code = 200 /\ last.request.data.doc = PushMain)
             => /\ events[Len(events)].request_id = Str(S_sha1)
                /\ events[Len(events)].author = Str(S_alice)
                /\ events[Len(events)].to_branch = Str(S_main)

\* The example push persisted after the seeded one.
C8_Witness ==
    /\ last.route = "receiver"
    /\ last.code = 200
    /\ last.request.event_type = Str(S_push)
    /\ last.request.data.doc = PushMain
    /\ Len(events) = 2
    /\ events[2].author = Str(S_alice)
    /\ events[2].from_branch = Null

\* s without a leading "refs/heads/".
StripLeading(s) ==
    IF Len(s) >= Len(RefsHeads) /\ SubSeq(s, 1, Len(RefsHeads)) = RefsHeads
    THEN SubSeq(s, Len(RefsHeads) + 1, Len(s))
    ELSE s

\* C9: the to_branch of a push event is payload.ref with only a leading
\* "refs/heads/" removed, the empty string when ref is absent.
C9_OnlyLeadingPrefixStripped ==
    \A w \in Inserting :
        PushDelivery(request[w])
        => event_data[w].to_branch
             = IF "ref" \in DOMAIN request[w].data.doc.v
               THEN Str(StripLeading(request[w].data.doc.v.ref.v))
               ELSE Str(<<>>)

\* d[k1][k2], or the default when k1 or k2 is absent.
Nested(d, k1, k2, default) ==
    IF k1 \in DOMAIN d.v /\ k2 \in DOMAIN d.v[k1].v THEN d.v[k1].v[k2] ELSE default

\* C10: the event built for a handled pull_request delivery follows the
\* dispatch table, and its request_id is a string.
C10_PullRequestFields ==
    \A w \in Inserting :
        PrDelivery(request[w])
        => LET pr == Field(request[w].data.doc, "pull_request")
               p == IF pr = Absent THEN EmptyObj ELSE pr
               ev == event_data[w]
           IN /\ ev.action = Str(S_PULL_REQUEST)
                 => /\ ev.request_id = IF "id" \in DOMAIN p.v THEN PyStr(p.v.id)
                                       ELSE Str(S_unknown)
                    /\ ev.author = Nested(p, "user", "login", Str(S_Unknown))
              /\ ev.action = Str(S_MERGE)
                 => /\ ev.request_id = IF "merge_commit_sha" \in DOMAIN p.v
                                       THEN p.v.merge_commit_sha ELSE Str(S_unknown)
                    /\ ev.author = Nested(p, "merged_by", "login", Str(S_Unknown))
              /\ ev.from_branch = Nested(p, "head", "ref", Str(S_unknown))
              /\ ev.to_branch = Nested(p, "base", "ref", Str(S_unknown))
              /\ ev.request_id.t = "str"

\* C11: a delivery past the signature gate with a non-empty JSON payload and
\* an event type other than "push" and "pull_request" (or none) is answered
\* 200 "ignored" without reaching the insert; the store is unchanged.
C11_OtherEventsIgnored ==
    [][(/\ ReceiverAnswers
        /\ Parsed(last'.request)
        /\ last'.request.event_type \notin {Str(S_push), Str(S_pull_request)})
       => (/\ Ignored(last')
           /\ pc' = pc
           /\ events' = events)]_vars

\* The null value is in none of these fields of a stored event.
NeverNullFields == {"request_id", "author", "action", "to_branch", "timestamp"}

\* C15: every stored event has one of the three actions, none of its fields
\* is null except from_branch, and from_branch is null only on PUSH events.
C15_NoNullFields ==
    \A i \in DOMAIN events :
        /\ events[i].action \in {Str(S_PUSH), Str(S_PULL_REQUEST), Str(S_MERGE)}
        /\ \A f \in NeverNullFields : events[i][f] # Null
        /\ events[i].from_branch = Null => events[i].action = Str(S_PUSH)

\* C18: a delivery with both an invalid signature (under a real secret) and an
\* unparsable or empty body is answered 401; a worker reaches the insert only
\* with a delivery that passed the gate and parsed to a non-empty payload,
\* holding an event built by the dispatch.
C18_GateOrder ==
    [][/\ (/\ ReceiverAnswers
           /\ webhook_secret \notin BypassSecrets
           /\ ~CorrectlySigned(last'.request)
           /\ Unparsable(last'.request) \/ last'.request.data.doc \in FalsyDocs)
          => last'.code = 401
       /\ \A w \in Inserting :
            /\ Parsed(request[w])
            /\ request[w].event_type \in {Str(S_push), Str(S_pull_request)}
            /\ event_data[w].action \in {Str(S_PUSH), Str(S_PULL_REQUEST), Str(S_MERGE)}
       /\ (ReceiverAnswers /\ FromInsert(last'))
          => /\ Inserting # {}
             /\ Parsed(last'.request)]_vars

\* The step is worker w's call of insert_one and the response that follows.
InsertStep(w) == pc[w] = "insert" /\ pc'[w] # "insert"

\* The response reports a persisted event.
Success(r) ==
    /\ r.route = "receiver"
    /\ r.code = 200
    /\ "status" \in DOMAIN r.body
    /\ r.body.status = "success"

DatabaseError(r) ==
    /\ r.route = "receiver"
    /\ r.code = 500
    /\ "error" \in DOMAIN r.body
    /\ r.body.error = "Database error"

\* C12: a worker holding a built event calls the insert once and answers its
\* delivery.  When the store takes the record the store grows by exactly that
\* event under a fresh id and the answer is 200 "success" with the non-empty
\* string form of that id; when the store raises the answer is 500 "Database
\* error", the store is unchanged and the worker is idle again (no retry).
\* "success" is answered only by a step that added the record.
C12_InsertOnceAndReport ==
    [][/\ \A w \in Workers :
            InsertStep(w)
            => /\ ReceiverAnswers
               /\ last'.request = request[w]
               /\ pc'[w] = "idle"
               /\ IF storeUp
                  THEN /\ Success(last')
                       /\ Len(events') = Len(events) + 1
                       /\ SubSeq(events', 1, Len(events)) = events
                       /\ \A k \in DOMAIN event_data[w] :
                            events'[Len(events')][k] = event_data[w][k]
                       /\ \A i \in DOMAIN events :
                            events[i]["_id"] # events'[Len(events')]["_id"]
                       /\ last'.body.id = PyStr(events'[Len(events')]["_id"])
                       /\ last'.body.id.t = "str"
                       /\ last'.body.id.v # <<>>
                  ELSE /\ DatabaseError(last')
                       /\ "message" \in DOMAIN last'.body
                       /\ events' = events
       /\ (ReceiverAnswers /\ Success(last'))
          => /\ \E w \in Workers : InsertStep(w)
             /\ Len(events') = Len(events) + 1
             /\ last'.body.id = PyStr(events'[Len(events')]["_id"])]_vars

\* A second delivery was answered "success" with the id of the record just
\* stored, which differs from the id of the first.
C12_Witness ==
    /\ Len(events) = 2
    /\ Success(last)
    /\ last.body.id = PyStr(events[2]["_id"])
    /\ last.body.id # PyStr(events[1]["_id"])

\* C16: the store is append-only.  In every step of every interleaving the
\* stored events stay as they are and in place, the count never decreases,
\* and it grows, by exactly one, in exactly the steps that answer a webhook
\* delivery with "success".
C16_AppendOnly ==
    [][/\ Len(events') >= Len(events)
       /\ Len(events') <= Len(events) + 1
       /\ SubSeq(events', 1, Len(events)) = events
       /\ Len(events') = Len(events) + 1 <=> (ReceiverAnswers /\ Success(last'))]_vars

\* One event is stored, a worker is about to insert the next, and a delivery
\* was answered without an insert.
C16_Witness ==
    /\ Len(events) = 1
    /\ Inserting # {}
    /\ last.route = "receiver"
    /\ ~Success(last)
    /\ last.request # Null

\* The instant a timestamp string stands for.
Instant(ts) == CHOOSE c \in 0..199 : IsoFormat(c) = ts

\* The stored events a returned event renders: same fields, the id as a string.
Renders(e) ==
    {j \in DOMAIN events :
       /\ e["_id"] = PyStr(events[j]["_id"])
       /\ \A k \in DOMAIN events[j] \ {"_id"} : e[k] = events[j][k]}

\* C13: a 200 answer of GET /api/events holds exactly min(10, n) events of
\* the n stored, newest first, each a stored event with its id as a string
\* and no stored event twice; every stored event left out is no newer than
\* any returned one; over an empty store the answer is the empty array.
C13_RecentTen ==
    (last.route = "events" /\ last.code = 200)
    => LET got == last.body
       IN /\ Len(got) = Min(10, Len(events))
          /\ \A i, j \in DOMAIN got :
               i < j => Instant(got[i].timestamp) >= Instant(got[j].timestamp)
          /\ \A i \in DOMAIN got :
               /\ got[i]["_id"].t = "str"
               /\ Cardinality(Renders(got[i])) = 1
          /\ \A i, j \in DOMAIN got : i # j => got[i]["_id"] # got[j]["_id"]
          /\ \A j \in DOMAIN events :
               (\A i \in DOMAIN got : j \notin Renders(got[i]))
               => \A i \in DOMAIN got :
                    Instant(got[i].timestamp) >= Instant(events[j].timestamp)
          /\ events = <<>> => got = <<>>

\* A store of more than ten events answered with ten, the newest of which is
\* not the event inserted last, and the oldest returned is as old as an
\* event left out.
C13_Witness ==
    /\ last.route = "events"
    /\ last.code = 200
    /\ Len(events) > 10
    /\ Len(last.body) = 10
    /\ last.body[1]["_id"] # PyStr(events[Len(events)]["_id"])
    /\ \E j \in DOMAIN events :
         /\ \A i \in DOMAIN last.body : j \notin Renders(last.body[i])
         /\ events[j].timestamp = last.body[10].timestamp

\* The step answers GET /api/events with 200 right after a correctly signed
\* push delivery was answered "success".
GetAfterPushSuccess ==
    /\ Success(last)
    /\ CorrectlySigned(last.request)
    /\ last.request.event_type = Str(S_push)
    /\ last' # last
    /\ last'.route = "events"
    /\ last'.code = 200

\* C14 as stated: the GET that follows a push answered "success" with id X
\* returns the event with _id X as the first element.
C14_PostedPushIsFirst ==
    [][GetAfterPushSuccess
       => /\ last'.body # <<>>
          /\ last'.body[1]["_id"] = last.body.id]_vars

\* C14 amended: the event with _id X is stored and, the store holding at
\* most ten events, is in the answer as a PUSH event; it is the first
\* element when every other stored event has a strictly earlier timestamp.
C14_PostedPushIsFirstWhenNewest ==
    [][GetAfterPushSuccess
       => LET X == last.body.id
              mine == {j \in DOMAIN events : PyStr(events[j]["_id"]) = X}
          IN /\ Cardinality(mine) = 1
             /\ \A j \in mine :
                  /\ Len(events) <= 10
                     => \E i \in DOMAIN last'.body :
                          /\ last'.body[i]["_id"] = X
                          /\ last'.body[i].action = Str(S_PUSH)
                  /\ (\A k \in DOMAIN events \ {j} :
                        Instant(events[k].timestamp) < Instant(events[j].timestamp))
                     => last'.body[1]["_id"] = X]_vars

\* The answer to a GET starts with the push inserted last, which is newer
\* than the event stored before it.
C14_Witness ==
    /\ last.route = "events"
    /\ last.code = 200
    /\ Len(events) = 2
    /\ events[2].action = Str(S_PUSH)
    /\ Instant(events[1].timestamp) < Instant(events[2].timestamp)
    /\ last.body[1]["_id"] = PyStr(events[2]["_id"])

\* Worker w holds an event whose request_id is already stored, or is held by
\* another worker for a delivery with the same body.
Duplicate(w) ==
    \/ \E i \in DOMAIN events : events[i].request_id = event_data[w].request_id
    \/ \E v \in Inserting \ {w} : request[v].data = request[w].data

\* C17: there is no deduplication.  With the store reachable, the insert of
\* an event whose request_id is already stored, or is being inserted by an
\* overlapping request, adds one more record with that request_id under an
\* id no stored record has, and is answered 200 "success"; stored ids are
\* pairwise different.
C17_NoDeduplication ==
    [][/\ \A w \in Workers :
            (InsertStep(w) /\ storeUp /\ Duplicate(w))
            => /\ Success(last')
               /\ Len(events') = Len(events) + 1
               /\ events'[Len(events')].request_id = event_data[w].request_id
               /\ \A i \in DOMAIN events :
                    events[i]["_id"] # events'[Len(events')]["_id"]
               /\ last'.body.id = PyStr(events'[Len(events')]["_id"])
       /\ \A i, j \in DOMAIN events' :
            i # j => events'[i]["_id"] # events'[j]["_id"]]_vars

\* Two deliveries of the same payload left two records that differ in their
\* ids only, and the second was answered "success".
C17_Witness ==
    /\ Len(events) = 2
    /\ events[1]["_id"] # events[2]["_id"]
    /\ \A k \in DOMAIN events[1] \ {"_id"} : events[1][k] = events[2][k]
    /\ Success(last)
    /\ last.body.id = PyStr(events[2]["_id"])

\* C20: the answers of GET /api/events and GET /webhook/test leave the store
\* as it was, ids included (the string ids are in the answer only); the
\* health check answers 200 with status "ok" whether or not the store is
\* reachable.
C20_ReadsLeaveStore ==
    [][(last' # last /\ last'.route \in {"events", "test"})
       => /\ events' = events
          /\ nextId' = nextId
          /\ \A i \in DOMAIN events' : events'[i]["_id"].t = "oid"
          /\ last'.route = "test"
             => /\ last'.code = 200
                /\ last'.body.status = "ok"]_vars

\* The health check answered 200 "ok" while the store, holding events, was
\* unreachable.
C20_Witness ==
    /\ last.route = "test"
    /\ last.code = 200
    /\ last.body.status = "ok"
    /\ ~storeUp
    /\ events # <<>>

\* The stored timestamps do not decrease in insertion order.
InInsertionOrder(evs) ==
    \A i, j \in DOMAIN evs :
        i < j => Instant(evs[i].timestamp) <= Instant(evs[j].timestamp)

\* C19: the timestamp of an event is the clock's instant at the step that
\* builds the event, and the insert stores it as built, whatever the clock
\* says by then; the clock never goes back; as long as no two requests were
\* between build and insert at the same time, the stored timestamps do not
\* decrease in insertion order.
C19_TimestampAtNormalization ==
    [][/\ \A w \in Workers :
            (pc[w] = "idle" /\ pc'[w] = "insert")
            => event_data'[w].timestamp = IsoFormat(clock)
       /\ \A w \in Workers :
            (InsertStep(w) /\ storeUp)
            => events'[Len(events')].timestamp = event_data[w].timestamp
       /\ clock' >= clock
       /\ ~overlapped' => InInsertionOrder(events')]_vars

\* Two requests overlapped, the event inserted later carries the earlier
\* timestamp, and GET /api/events returned the event inserted first before
\* it.
C19_Witness ==
    /\ overlapped
    /\ Len(events) = 2
    /\ Instant(events[2].timestamp) < Instant(events[1].timestamp)
    /\ last.route = "events"
    /\ last.code = 200
    /\ last.body[1]["_id"] = PyStr(events[1]["_id"])
    /\ last.body[2]["_id"] = PyStr(events[2]["_id"])

====
